---- MODULE Spec2Model ----
(***************************************************************************)
(* A model of add_taxa_to_align.py: the partition reader, the alignment    *)
(* slicer, the hit filter, the dynamic threshold estimator, the sequence   *)
(* collector, and the pipeline that main() drives through the external     *)
(* tools (hmmbuild, hmmsearch, mafft, FastTree).                           *)
(*                                                                         *)
(* Data representation.                                                    *)
(*   - A text is a sequence of one-character strings.                      *)
(*   - An E-value is an IEEE-754 double [m, e]: m is the 53-bit            *)
(*     significand as four limbs of 14 bits, most significant first, and   *)
(*     the value is m * 2^e; 0.0 has all limbs 0.  Products are rounded    *)
(*     to nearest, ties to even, as the hardware does.                     *)
(*   - A bit score is an integer; a fractional cutoff such as 0.5 is a     *)
(*     pair <<num, den>>.                                                  *)
(*   - A row of an hmmsearch --tblout table is the tuple of its first six  *)
(*     whitespace-separated fields; a comment line is <<"#">>, an empty    *)
(*     line is <<>>.                                                       *)
(***************************************************************************)
EXTENDS Integers, Sequences, FiniteSets, TLC

\* input and output: the arguments (and, for main, the environment) of the
\* call under study and what it returned.
VARIABLES input, output

\* The state of a run of main(): its position, the error that ended it, and
\* its local variables.
VARIABLES pc, error, idx, newtaxafiles, alignfiles, hmmprofilelist, aligntohmm,
          evalueforhmmdict, seqrecs_to_add, speciesnames, newspeciesfile,
          nt_unaligned, nt_aligned, supermatrix, partitionlist, runningsum

\* files: the files the run has written, path -> content.
\* History variables: nooutput, the expected output paths of the tool runs
\* that produced nothing (a run is not recorded when an earlier step of the
\* run had already left a file at that path); extended, the extended
\* alignments read so far.
VARIABLES files, nooutput, extended

\* seqrecs_identity has the shape of seqrecs_to_add and tells which object
\* each record in it is: <<s, key>> is the record seqdict[key] of the seqdict
\* made for the s-th species file.  One object may sit in several lists.
VARIABLE seqrecs_identity

mainvars == <<pc, error, idx, newtaxafiles, alignfiles, hmmprofilelist, aligntohmm,
              evalueforhmmdict, seqrecs_to_add, speciesnames, newspeciesfile, nt_unaligned,
              nt_aligned, supermatrix, partitionlist, runningsum, files,
              nooutput, extended, seqrecs_identity>>

vars == <<input, output, mainvars>>

\* A value that may be absent is <<>> when absent and <<v>> when it is v:
\* Python's None, and a local variable that has not been assigned yet
None == <<>>
Unbound == <<>>
Some(v) == <<v>>

\* ------------------------------------------------------------------------
\* Generic helpers

Max2(a, b) == IF a > b THEN a ELSE b

Min2(a, b) == IF a < b THEN a ELSE b

\* All sequences over S of length 0..n
SeqsUpTo(S, n) == UNION { [1..k -> S] : k \in 0..n }

\* ------------------------------------------------------------------------
\* E-values are Python floats (IEEE 754 doubles), never negative.  A double
\* is [m, e]: m is its 53-bit significand as four limbs of 14 bits, most
\* significant first, and its value is
\*     (m[1]*2^42 + m[2]*2^28 + m[3]*2^14 + m[4]) * 2^e
\* with 2^52 <= significand < 2^53; 0.0 is the significand 0 with e = 0.

LimbBase == 16384

EZero == [m |-> <<0, 0, 0, 0>>, e |-> 0]

\* float(text) for the literals that occur: the double nearest to the decimal
float(literal) ==
    CASE literal = "0" -> EZero
      [] literal = "1e-300" -> [m |-> <<1371, 8700, 3043, 13145>>, e |-> -1049]
      [] literal = "1e-20" -> [m |-> <<1511, 2576, 12873, 547>>, e |-> -119]
      [] literal = "3e-20" -> [m |-> <<1133, 6028, 9654, 12699>>, e |-> -117]
      [] literal = "1e-15" -> [m |-> <<1152, 15097, 15261, 5654>>, e |-> -102]
      [] literal = "1e-10" -> [m |-> <<1759, 3581, 10078, 15803>>, e |-> -86]
      [] literal = "1e-5" -> [m |-> <<1342, 2904, 9101, 10481>>, e |-> -69]
      [] literal = "0.28" -> [m |-> <<1146, 14417, 15073, 4588>>, e |-> -54]
      [] literal = "0.5" -> [m |-> <<1024, 0, 0, 0>>, e |-> -53]
      [] literal = "0.7" -> [m |-> <<1433, 9830, 6553, 9830>>, e |-> -53]
      [] literal = "1" -> [m |-> <<1024, 0, 0, 0>>, e |-> -52]
      [] literal = "10" -> [m |-> <<1280, 0, 0, 0>>, e |-> -49]
      [] literal = "1e5" -> [m |-> <<1562, 8192, 0, 0>>, e |-> -36]

RECURSIVE Pow2(_)
Pow2(k) == IF k = 0 THEN 1 ELSE 2 * Pow2(k - 1)

\* the number of binary digits of n
RECURSIVE BitLength(_)
BitLength(n) == IF n = 0 THEN 0 ELSE 1 + BitLength(n \div 2)

\* the limb of weight 2^w of n shifted left by s binary places
\* (IntLimb); the double an int (0 <= n < 2^31) becomes when it meets a float in an
\* arithmetic expression: n itself, shifted left until it has 53 bits
IntLimb(n, s, w) ==
    IF s >= w
    THEN IF s - w >= 14 THEN 0 ELSE (n % Pow2(14 - (s - w))) * Pow2(s - w)
    ELSE (n \div Pow2(w - s)) % LimbBase

IntToDouble(n) ==
    IF n = 0 THEN EZero
    ELSE LET s == 53 - BitLength(n) IN
         [m |-> <<IntLimb(n, s, 42), IntLimb(n, s, 28), IntLimb(n, s, 14),
                  IntLimb(n, s, 0)>>,
          e |-> 0 - s]

\* the significands compared limb by limb, from limb i on
RECURSIVE LimbsGt(_, _, _)
LimbsGt(x, y, i) ==
    IF i > Len(x) THEN FALSE
    ELSE IF x[i] # y[i] THEN x[i] > y[i]
    ELSE LimbsGt(x, y, i + 1)

\* a > b on doubles
EGt(a, b) ==
    IF a = EZero THEN FALSE
    ELSE IF b = EZero THEN TRUE
    ELSE a.e > b.e \/ (a.e = b.e /\ LimbsGt(a.m, b.m, 1))

\* a <= b on doubles
ELeq(a, b) == ~EGt(a, b)

\* column k (0 the least significant) of the long multiplication of two
\* significands: the sum of the limb products of that weight
ProductTerm(x, y, k, i) ==
    IF k - i \in 0..3 THEN x[4 - i] * y[4 - (k - i)] ELSE 0

ProductColumn(x, y, k) ==
    ProductTerm(x, y, k, 0) + ProductTerm(x, y, k, 1)
       + ProductTerm(x, y, k, 2) + ProductTerm(x, y, k, 3)

\* the exact product of two significands: eight limbs, least significant first
RECURSIVE ProductLimbs(_, _, _, _)
ProductLimbs(x, y, k, carry) ==
    IF k > 7 THEN <<>>
    ELSE LET total == (IF k <= 6 THEN ProductColumn(x, y, k) ELSE 0) + carry IN
         <<total % LimbBase>> \o ProductLimbs(x, y, k + 1, total \div LimbBase)

\* limbs hi down to lo of p (least significant first) divided by d: the
\* quotient limbs, most significant first, and the remainder
RECURSIVE LimbsDiv(_, _, _, _, _)
LimbsDiv(p, hi, lo, d, rem) ==
    IF hi < lo THEN [q |-> <<>>, r |-> rem]
    ELSE LET cur == rem * LimbBase + p[hi]
             rest == LimbsDiv(p, hi - 1, lo, d, cur % d)
         IN  [q |-> <<cur \div d>> \o rest.q, r |-> rest.r]

\* a significand plus one
RECURSIVE LimbsIncrement(_, _)
LimbsIncrement(x, i) ==
    IF i = 0 THEN x
    ELSE IF x[i] + 1 < LimbBase THEN [x EXCEPT ![i] = x[i] + 1]
    ELSE LimbsIncrement([x EXCEPT ![i] = 0], i - 1)

\* a significand q (the limbs above the cut) rounded by what was cut off: up
\* when the remainder rem is more than half of d, or exactly half with the
\* significand odd or bits lost below (ties to even)
RoundLimbs(q, rem, d, sticky) ==
    IF 2 * rem > d \/ (2 * rem = d /\ (sticky \/ q[4] % 2 = 1))
    THEN LimbsIncrement(q, 4)
    ELSE q

\* a rounded significand that has reached 2^53 is 2^52 with the next exponent
NormalizeDouble(r, e) ==
    IF r[1] >= 2048 THEN [m |-> <<1024, 0, 0, 0>>, e |-> e + 1]
    ELSE [m |-> r, e |-> e]

\* the exact product p cut d * 2^42 above its last bit and rounded to 53 bits
RoundProduct(p, d, e) ==
    LET cut == LimbsDiv(p, 8, 4, d, 0) IN
    NormalizeDouble(RoundLimbs(SubSeq(cut.q, 2, 5), cut.r, d,
                               p[1] # 0 \/ p[2] # 0 \/ p[3] # 0), e)

\* a * b on doubles: the exact product rounded to 53 bits, ties to even
\* (no overflow or underflow occurs for the values that are multiplied); the
\* product has 106 bits when its bit 105 is set, else 105
EScale(a, b) ==
    IF a = EZero \/ b = EZero THEN EZero
    ELSE LET p == ProductLimbs(a.m, b.m, 0, 0) IN
         IF p[8] >= 128 THEN RoundProduct(p, 2048, a.e + b.e + 53)
         ELSE RoundProduct(p, 1024, a.e + b.e + 52)

\* ------------------------------------------------------------------------
\* Python's str.split(sep), str slicing and int()

\* text.split(sep): the pieces between the separators, at least one piece
RECURSIVE SplitOn(_, _)
SplitOn(text, sep) ==
    IF \A k \in 1..Len(text) : text[k] # sep THEN <<text>>
    ELSE LET p == CHOOSE k \in 1..Len(text) :
                     text[k] = sep /\ \A j \in 1..(k - 1) : text[j] # sep
         IN  <<SubSeq(text, 1, p - 1)>> \o SplitOn(SubSeq(text, p + 1, Len(text)), sep)

\* an index of a slice, as Python normalises it for a sequence of length n
SliceIndex(k, n) ==
    IF k < 0 THEN Max2(k + n, 0) ELSE Min2(k, n)

\* seq[lo:hi] with 0-based lo (inclusive) and hi (exclusive)
PySlice(seq, lo, hi) ==
    SubSeq(seq, SliceIndex(lo, Len(seq)) + 1, SliceIndex(hi, Len(seq)))

Digits == <<"0", "1", "2", "3", "4", "5", "6", "7", "8", "9">>

IsDigit(c) == \E d \in 1..10 : Digits[d] = c

DigitValue(c) == (CHOOSE d \in 1..10 : Digits[d] = c) - 1

\* the characters str.strip() and int() treat as blank: space, tab, line
\* feed, carriage return, form feed and (the last, written as the character
\* itself) vertical tab
Whitespace == {" ", "\t", "\n", "\r", "\f", ""}

\* text.strip(): without its leading and trailing blanks
RECURSIVE strip(_)
strip(text) ==
    IF text = <<>> THEN text
    ELSE IF Head(text) \in Whitespace THEN strip(Tail(text))
    ELSE IF text[Len(text)] \in Whitespace THEN strip(SubSeq(text, 1, Len(text) - 1))
    ELSE text

\* the value of a run of decimal digits
RECURSIVE DigitsValue(_)
DigitsValue(text) ==
    IF text = <<>> THEN 0
    ELSE 10 * DigitsValue(SubSeq(text, 1, Len(text) - 1)) + DigitValue(text[Len(text)])

\* what int() reads as digits in a text without blanks at its ends: the
\* text after the optional sign and after the blanks that follow the sign
Unsigned(text) ==
    IF text # <<>> /\ Head(text) \in {"+", "-"} THEN strip(Tail(text)) ELSE text

\* int(text) succeeds: blanks, an optional sign, blanks, a non-empty run of
\* decimal digits, blanks
IsInt(text) ==
    LET digits == Unsigned(strip(text)) IN
    digits # <<>> /\ \A k \in 1..Len(digits) : IsDigit(digits[k])

\* int(text)
IntOf(text) ==
    LET body == strip(text) IN
    IF body # <<>> /\ Head(body) = "-" THEN 0 - DigitsValue(Unsigned(body))
    ELSE DigitsValue(Unsigned(body))

\* "{}".format(n): the decimal digits of n, after a "-" when n < 0
RECURSIVE FormatInt(_)
FormatInt(n) ==
    IF n < 0 THEN <<"-">> \o FormatInt(0 - n)
    ELSE IF n < 10 THEN <<Digits[n + 1]>>
    ELSE FormatInt(n \div 10) \o <<Digits[(n % 10) + 1]>>

\* ------------------------------------------------------------------------
\* Paths: [dir, stem, ext].  os.path.splitext(p)[0] is dir and stem,
\* os.path.basename(p) is stem and ext; a stem is a sequence of strings.

Path(dir, stem, ext) == [dir |-> dir, stem |-> stem, ext |-> ext]

\* os.path.basename(p)
basename(p) == <<p.stem, p.ext>>

\* ------------------------------------------------------------------------
\* get_partitions (Partition Reader)

\* for line in open(partitionfile): the file is cut after every line break,
\* line.strip() removes the blanks at both ends of a line, and the lines
\* that are then empty are skipped
PartitionLines(content) ==
    LET lines == SplitOn(content, "\n") IN
    SelectSeq([l \in 1..Len(lines) |-> strip(lines[l])], LAMBDA line : line # <<>>)

\* tuple( int(i) for i in block.split(":") ); ok is FALSE on ValueError
BlockToTuple(block) ==
    LET fields == SplitOn(block, ":") IN
    IF \A k \in 1..Len(fields) : IsInt(fields[k])
    THEN [ok |-> TRUE, alignindex |-> [k \in 1..Len(fields) |-> IntOf(fields[k])]]
    ELSE [ok |-> FALSE, alignindex |-> <<>>]

\* the blocks of the lines from line l on; acc is [ok, partitions]
RECURSIVE partitions_scan(_, _, _)
partitions_scan(lines, l, acc) ==
    IF ~acc.ok \/ l > Len(lines) THEN acc
    ELSE LET blocks == SplitOn(lines[l], ",")
             tuples == [b \in 1..Len(blocks) |-> BlockToTuple(blocks[b])]
         IN  IF \E b \in 1..Len(blocks) : ~tuples[b].ok
             THEN [ok |-> FALSE, partitions |-> <<>>]
             ELSE partitions_scan(lines, l + 1,
                     [ok |-> TRUE,
                      partitions |-> acc.partitions \o
                          [b \in 1..Len(blocks) |-> tuples[b].alignindex]])

\* Returns [ok, partitions]; ok is FALSE when int() raised ValueError
get_partitions(content) ==
    partitions_scan(PartitionLines(content), 1, [ok |-> TRUE, partitions |-> <<>>])

\* ------------------------------------------------------------------------
\* make_alignments (Alignment Slicer)

\* mutant: the 1-based start is used as a 0-based index
SliceColumns_OffByOne(gappedseq, part) == PySlice(gappedseq, part[1], part[2])

\* alignedseqs[:, part[0]-1:part[1] ], for one row
SliceColumns(gappedseq, part) == PySlice(gappedseq, part[1] - 1, part[2])

\* os.path.join(partitiondir, "{}_{}_{}_part.aln".format(base, part[0], part[1]))
PartName(fullalignment, part, partitiondir) ==
    Path(partitiondir,
         fullalignment.stem \o <<"_">> \o FormatInt(part[1]) \o <<"_">>
            \o FormatInt(part[2]) \o <<"_part">>,
         "aln")

\* one partition: the file name and the rows written to it
MakePart(fullalignment, alignedseqs, part, partitiondir) ==
    [name |-> PartName(fullalignment, part, partitiondir),
     rows |-> [r \in 1..Len(alignedseqs) |->
                  [alignedseqs[r] EXCEPT !.seq = SliceColumns(alignedseqs[r].seq, part)]]]

\* fullalignment is the path, alignedseqs the alignment read from it.
\* Returns [ok, splitalignments]; ok is FALSE when part[1] does not exist
\* (IndexError on a partition with one bound).  The parts before it have
\* been written by then.
make_alignments(fullalignment, alignedseqs, partitions, partitiondir) ==
    LET bad == {k \in 1..Len(partitions) : Len(partitions[k]) < 2} IN
    IF bad = {}
    THEN [ok |-> TRUE,
          splitalignments |-> [k \in 1..Len(partitions) |->
                                  MakePart(fullalignment, alignedseqs, partitions[k], partitiondir)]]
    ELSE LET first == CHOOSE k \in bad : \A j \in bad : k <= j IN
         [ok |-> FALSE,
          splitalignments |-> [k \in 1..(first - 1) |->
                                  MakePart(fullalignment, alignedseqs, partitions[k], partitiondir)]]

\* ------------------------------------------------------------------------
\* hmmtable_to_seqids (Hit Filter)

\* scorecutoff=0.5, the default of the keyword argument, a double like every
\* value given for it.  Bit scores are whole numbers here, held as integers
\* and converted where the code multiplies or compares them as floats.
ScoreCutoffDefault == float("0.5")

\* not line or line[0]=="#"
IsSkippedLine(line) == line = <<>> \/ line[1] = "#"

\* if bitscore > maxscore: maxscore = bitscore
UpdateMaxscore(bitscore, maxscore) ==
    IF bitscore > maxscore THEN bitscore ELSE maxscore

\* mutant: the comparison is not strict
KeepHit_NonStrict(evalue, bitscore, maxscore, evaluecutoff, scorecutoff) ==
    /\ ELeq(evalue, evaluecutoff)
    /\ bitscore >= 0
    /\ ELeq(EScale(IntToDouble(maxscore), scorecutoff), IntToDouble(bitscore))

\* evalue <= evaluecutoff and bitscore > maxscore*scorecutoff, the product
\* being the double maxscore*scorecutoff (90*0.7 is 62.99999999999999, so a
\* score of 63 exceeds it).  maxscore starts at 0 and never decreases and
\* scorecutoff is not negative, so the product is not negative and a score
\* of 0 or less never exceeds it.
KeepHit(evalue, bitscore, maxscore, evaluecutoff, scorecutoff) ==
    /\ ELeq(evalue, evaluecutoff)
    /\ bitscore > 0
    /\ EGt(IntToDouble(bitscore), EScale(IntToDouble(maxscore), scorecutoff))

RECURSIVE hmmtable_scan(_, _, _, _, _, _)
hmmtable_scan(lines, i, evaluecutoff, scorecutoff, maxscore, seqids_to_keep) ==
    IF i > Len(lines) THEN seqids_to_keep
    ELSE LET line == lines[i] IN
         IF IsSkippedLine(line)
         THEN hmmtable_scan(lines, i + 1, evaluecutoff, scorecutoff,
                            maxscore, seqids_to_keep)
         ELSE LET targetname == line[1]
                  evalue     == line[5]
                  bitscore   == line[6]
                  newmax     == UpdateMaxscore(bitscore, maxscore)
              IN  hmmtable_scan(lines, i + 1, evaluecutoff, scorecutoff, newmax,
                     IF KeepHit(evalue, bitscore, newmax, evaluecutoff, scorecutoff)
                     THEN Append(seqids_to_keep, targetname)
                     ELSE seqids_to_keep)

hmmtable_to_seqids(hmmtable, evaluecutoff, scorecutoff) ==
    hmmtable_scan(hmmtable, 1, evaluecutoff, scorecutoff, 0, <<>>)

\* ------------------------------------------------------------------------
\* get_evalue_from_hmm (Dynamic Threshold Estimator), the part after the
\* self-search table has been found

\* correction=1e5
Correction == float("1e5")

\* maxevalue = 1e-300
EFloor == float("1e-300")

RECURSIVE maxevalue_scan(_, _, _)
maxevalue_scan(lines, i, maxevalue) ==
    IF i > Len(lines) THEN maxevalue
    ELSE LET line == lines[i] IN
         IF IsSkippedLine(line) THEN maxevalue_scan(lines, i + 1, maxevalue)
         ELSE LET evalue == line[5] IN
              maxevalue_scan(lines, i + 1,
                             IF EGt(evalue, maxevalue) THEN evalue ELSE maxevalue)

\* mutant: the all-zero case is scaled like any other
evalue_from_table_NoFloor(hmmtable, correction) ==
    EScale(maxevalue_scan(hmmtable, 1, EZero), correction)

evalue_from_table(hmmtable, correction) ==
    LET maxevalue == maxevalue_scan(hmmtable, 1, EZero) IN
    IF maxevalue = EZero THEN EFloor ELSE EScale(maxevalue, correction)

\* ------------------------------------------------------------------------
\* unalign_sequences

\* gappedseq.replace("-","").replace("X","")
degap(gappedseq) == SelectSeq(gappedseq, LAMBDA c : c # "-" /\ c # "X")

\* insert x into the ascending sequence s
RECURSIVE InsertSorted(_, _)
InsertSorted(s, x) ==
    IF s = <<>> THEN <<x>>
    ELSE IF x <= Head(s) THEN <<x>> \o s
    ELSE <<Head(s)>> \o InsertSorted(Tail(s), x)

\* sorted(sizelist)
RECURSIVE sorted(_)
sorted(sizelist) ==
    IF sizelist = <<>> THEN <<>>
    ELSE InsertSorted(sorted(Tail(sizelist)), Head(sizelist))

\* mutant: the lower median, sorted(sizelist)[(len(sizelist)-1)/2]
median_of_Lower(sizelist) == sorted(sizelist)[((Len(sizelist) - 1) \div 2) + 1]

\* sorted(sizelist)[len(sizelist)/2], a 0-based index with integer division
median_of(sizelist) == sorted(sizelist)[(Len(sizelist) \div 2) + 1]

\* The records unalign_sequences writes, and the median it returns.  An
\* alignment is a sequence of records [id, description, seq]; an empty
\* alignment with calculatemedian makes the index fail (IndexError).
unalign_sequences(alignment, notrim, calculatemedian, removeempty) ==
    LET degapped == [k \in 1..Len(alignment) |->
                        [alignment[k] EXCEPT !.seq = degap(alignment[k].seq)]]
        sizelist == IF calculatemedian
                    THEN [k \in 1..Len(alignment) |-> Len(degapped[k].seq)]
                    ELSE <<>>
        written  == SelectSeq(degapped,
                        LAMBDA r : notrim /\ ~(removeempty /\ Len(r.seq) = 0))
    IN  [ok      |-> ~(calculatemedian /\ sizelist = <<>>),
         written |-> written,
         median  |-> IF calculatemedian /\ sizelist # <<>>
                     THEN median_of(sizelist) ELSE 0]

\* ------------------------------------------------------------------------
\* collect_sequences (Sequence Collector); its parameter speciesnames is
\* called names here

\* mutant: the length test is strict
LongEnough_Strict(seqrec, median, lengthcutoff) ==
    EGt(IntToDouble(Len(seqrec.seq)), EScale(IntToDouble(median), lengthcutoff))

\* len(seqrec.seq) >= median*lengthcutoff: median is an int and lengthcutoff
\* a float, so the product is a double and the length is compared with it
LongEnough(seqrec, median, lengthcutoff) ==
    ELeq(EScale(IntToDouble(median), lengthcutoff), IntToDouble(Len(seqrec.seq)))

\* The inner loop over one species' hits.  st is [ok, writeout, out, kept]:
\* ok is FALSE once speciesnames[i] has failed (IndexError); kept are the
\* positions in the hit list of the records written.
RECURSIVE collect_hitlist(_, _, _, _, _, _, _, _, _)
collect_hitlist(hitlist, j, i, median, lengthcutoff, names, maxhits, dosupermatrix, st) ==
    IF ~st.ok \/ j > Len(hitlist) \/ st.writeout = maxhits THEN st
    ELSE LET seqrec == hitlist[j] IN
         IF LongEnough(seqrec, median, lengthcutoff)
         THEN IF dosupermatrix /\ i > Len(names)
              THEN [st EXCEPT !.ok = FALSE]
              ELSE collect_hitlist(hitlist, j + 1, i, median, lengthcutoff,
                      names, maxhits, dosupermatrix,
                      [ok |-> TRUE,
                       writeout |-> st.writeout + 1,
                       kept |-> Append(st.kept, j),
                       out |-> Append(st.out,
                                 IF dosupermatrix
                                 THEN [seqrec EXCEPT !.id = names[i],
                                                     !.description = ""]
                                 ELSE seqrec)])
         ELSE collect_hitlist(hitlist, j + 1, i, median, lengthcutoff,
                 names, maxhits, dosupermatrix, st)

\* print >> notaln, ">{}".format(speciesnames[i])
Placeholder(name) == [id |-> name, description |-> "", seq |-> <<>>]

\* The outer loop over species; acc is [ok, out, counts, kept], counts[i]
\* being the number of records species i has contributed and kept the
\* written records as <<i, j>>: the j-th record of the i-th hit list.
RECURSIVE collect_species(_, _, _, _, _, _, _, _)
collect_species(hitlistolists, i, median, lengthcutoff, names, maxhits, dosupermatrix, acc) ==
    IF ~acc.ok \/ i > Len(hitlistolists) THEN acc
    ELSE LET st == collect_hitlist(hitlistolists[i], 1, i, median, lengthcutoff,
                       names, maxhits, dosupermatrix,
                       [ok |-> TRUE, writeout |-> 0, out |-> <<>>, kept |-> <<>>])
             keptnow == acc.kept \o [k \in 1..Len(st.kept) |-> <<i, st.kept[k]>>]
         IN  IF ~st.ok
             THEN [acc EXCEPT !.ok = FALSE, !.out = acc.out \o st.out, !.kept = keptnow]
             ELSE IF st.writeout = 0
             THEN IF i > Len(names)
                  THEN [acc EXCEPT !.ok = FALSE]
                  ELSE collect_species(hitlistolists, i + 1, median, lengthcutoff,
                          names, maxhits, dosupermatrix,
                          [ok |-> TRUE,
                           out |-> Append(acc.out, Placeholder(names[i])),
                           counts |-> Append(acc.counts, 1),
                           kept |-> keptnow])
             ELSE collect_species(hitlistolists, i + 1, median, lengthcutoff,
                     names, maxhits, dosupermatrix,
                     [ok |-> TRUE,
                      out |-> acc.out \o st.out,
                      counts |-> Append(acc.counts, st.writeout),
                      kept |-> keptnow])

\* Returns [ok, seeds, appended, counts, kept]: the degapped seed records
\* written first, then the records appended for the species, how many each
\* species contributed, and which records of hitlistolists were written.
\* ok is FALSE when an index failed.
collect_sequences(alignment, hitlistolists, lengthcutoff, names, maxhits, dosupermatrix, notrim) ==
    LET un == unalign_sequences(alignment, notrim, TRUE, FALSE) IN
    IF ~un.ok
    THEN [ok |-> FALSE, seeds |-> <<>>, appended |-> <<>>, counts |-> <<>>,
          kept |-> <<>>]
    ELSE LET acc == collect_species(hitlistolists, 1, un.median, lengthcutoff,
                        names, maxhits, dosupermatrix,
                        [ok |-> TRUE, out |-> <<>>, counts |-> <<>>, kept |-> <<>>])
         IN  [ok |-> acc.ok, seeds |-> un.written, appended |-> acc.out,
              counts |-> acc.counts, kept |-> acc.kept]

\* ------------------------------------------------------------------------
\* Dictionaries (functions from keys) and files

\* d[k] = v
DictPut(d, k, v) == [x \in (DOMAIN d) \cup {k} |-> IF x = k THEN v ELSE d[x]]

\* d[k] of a defaultdict(list): a missing key reads as the empty list
DictGetList(d, k) == IF k \in DOMAIN d THEN d[k] ELSE <<>>

\* os.path.isfile(path), for the paths the run writes
isfile(fs, path) == path \in DOMAIN fs

\* a file that open(path, 'w') created and nothing was written to
EmptyFile == [kind |-> "empty"]

\* ------------------------------------------------------------------------
\* The output paths of the tool wrappers

\* "{}.hmm".format(os.path.splitext(alignmentfile)[0])
hmm_output_of(alignmentfile) == Path(alignmentfile.dir, alignmentfile.stem, "hmm")

\* os.path.join(hmmdir, os.path.basename("{}_{}.tab".format(
\*     os.path.splitext(fastafile)[0], os.path.splitext(os.path.basename(hmmprofile))[0])))
hmmtbl_output_of(hmmprofile, fastafile, hmmdir) ==
    Path(hmmdir, fastafile.stem \o <<"_">> \o hmmprofile.stem, "tab")

\* os.path.join(hmmevaluedir, "{}_no_gaps.fasta".format(...basename(alignment)...))
fasta_unaligned_of(alignment, hmmevaluedir) ==
    Path(hmmevaluedir, alignment.stem \o <<"_no_gaps">>, "fasta")

\* os.path.join(hmmevaluedir, os.path.basename("{}_self_hmm.tab".format(
\*     os.path.splitext(alignment)[0])))
self_hmmtbl_output_of(alignment, hmmevaluedir) ==
    Path(hmmevaluedir, alignment.stem \o <<"_self_hmm">>, "tab")

\* os.path.join(new_aln_dir, "{}.fasta".format(...basename(alignment)...))
nt_unaligned_of(alignment, new_aln_dir) == Path(new_aln_dir, alignment.stem, "fasta")

\* "{}.aln".format(os.path.splitext(rawseqsfile)[0])
aln_output_of(rawseqsfile) == Path(rawseqsfile.dir, rawseqsfile.stem, "aln")

\* "{}.tree".format(os.path.splitext(alignfile)[0])
tree_output_of(alignfile) == Path(alignfile.dir, alignfile.stem, "tree")

\* OSError("Cannot find expected output file {}".format(path))
MissingOutput(path) == Some([type |-> "OSError", what |-> "Cannot find expected output file", path |-> Some(path)])

Raised(type, what) == Some([type |-> type, what |-> what, path |-> None])

\* ------------------------------------------------------------------------
\* The supermatrix bookkeeping of the main loop.  An alignment read back
\* from the aligner is [ids, cols]: its row identifiers and column count.

\* mutant: the descriptor starts at the running sum itself
partition_descriptor_ZeroBased(sum, alignment_length) ==
    FormatInt(sum) \o <<":">> \o FormatInt(sum + alignment_length)

\* "{}:{}".format(runningsum+1, runningsum+alignment_length)
partition_descriptor(sum, alignment_length) ==
    FormatInt(sum + 1) \o <<":">> \o FormatInt(sum + alignment_length)

\* MultipleSeqAlignment.__add__: the rows are joined pairwise; a row whose
\* two identifiers differ gets the identifier "<unknown id>"
concatenate(left, right) ==
    [ids  |-> [r \in 1..Len(left.ids) |->
                  IF left.ids[r] = right.ids[r] THEN left.ids[r] ELSE "<unknown id>"],
     cols |-> left.cols + right.cols]

\* ",".join(partitionlist)
RECURSIVE join_partitions(_)
join_partitions(descriptors) ==
    IF descriptors = <<>> THEN <<>>
    ELSE IF Len(descriptors) = 1 THEN descriptors[1]
    ELSE descriptors[1] \o <<",">> \o join_partitions(Tail(descriptors))

\* [os.path.basename(newspeciesfile) for f in newtaxafiles]: the element
\* expression reads the loop variable of the search loop that follows, which
\* is still unassigned; ok is FALSE when that raises NameError
basenames_of(taxafiles, loopvar) ==
    IF taxafiles # <<>> /\ loopvar = Unbound
    THEN [ok |-> FALSE, names |-> <<>>]
    ELSE [ok |-> TRUE,
          names |-> [f \in 1..Len(taxafiles) |-> basename(loopvar[1])]]

\* ------------------------------------------------------------------------
\* The state of main() before it has been entered: the specifications of
\* the single functions leave it there.

MainIdle ==
    /\ pc = "idle"
    /\ error = None
    /\ idx = [a |-> 1, s |-> 1, h |-> 1]
    /\ newtaxafiles = <<>>
    /\ alignfiles = <<>>
    /\ hmmprofilelist = <<>>
    /\ aligntohmm = <<>>
    /\ evalueforhmmdict = <<>>
    /\ seqrecs_to_add = <<>>
    /\ speciesnames = <<>>
    /\ newspeciesfile = Unbound
    /\ nt_unaligned = None
    /\ nt_aligned = None
    /\ supermatrix = None
    /\ partitionlist = <<>>
    /\ runningsum = 0
    /\ files = <<>>
    /\ nooutput = {}
    /\ extended = <<>>
    /\ seqrecs_identity = <<>>

\* ------------------------------------------------------------------------
\* Input domains of the table functions

MaxRows == 3

Targets == {"p1", "p2"}
TableEvalues == {EZero, float("1e-20"), float("3e-20"), float("1e-15"), float("1e-10")}
TableScores == {-10, 40, 50, 80}
\* scores whose product with 0.7 is not a whole number of the decimal
\* arithmetic: 90*0.7 is the double 62.99999999999999
FineScores == {62, 63, 90}

HitLine(t, e, s) == <<t, "-", "q", "-", e, s>>

FilterLines ==
    {<<>>, <<"#">>} \cup
    {HitLine(t, e, s) : t \in Targets, e \in {float("1e-15"), float("1")}, s \in TableScores}

\* tables searched with a score fraction other than the default
FineLines ==
    {<<"#">>} \cup {HitLine(t, float("1e-15"), s) : t \in Targets, s \in FineScores}

\* 1e-5 and 10 as given with -e, and the threshold computed from 1e-20
FilterCutoffs == {float("1e-5"), float("10"), EScale(float("1e-20"), Correction)}

SelfLines ==
    {<<>>, <<"#">>} \cup {HitLine("s", e, 50) : e \in TableEvalues}

Pending == [done |-> FALSE]

\* ------------------------------------------------------------------------
\* Specification of the hit filter alone

InitHitFilter ==
    /\ input \in [fn : {"hmmtable_to_seqids"},
                   hmmtable : SeqsUpTo(FilterLines, MaxRows),
                   evaluecutoff : FilterCutoffs,
                   scorecutoff : {ScoreCutoffDefault}]
               \cup
                  [fn : {"hmmtable_to_seqids"},
                   hmmtable : SeqsUpTo(FineLines, MaxRows),
                   evaluecutoff : {float("1e-5")},
                   scorecutoff : {float("0.7"), float("1")}]
    /\ output = Pending
    /\ MainIdle

CallHmmtableToSeqids ==
    /\ input.fn = "hmmtable_to_seqids"
    /\ ~output.done
    /\ output' = [done |-> TRUE,
                  value |-> hmmtable_to_seqids(input.hmmtable, input.evaluecutoff,
                                               input.scorecutoff)]
    /\ UNCHANGED <<input, mainvars>>

NextHitFilter == CallHmmtableToSeqids

SpecHitFilter == InitHitFilter /\ [][NextHitFilter]_vars

\* ------------------------------------------------------------------------
\* Specification of the threshold estimator alone

InitThreshold ==
    /\ input \in [fn : {"get_evalue_from_hmm"},
                  hmmtable : SeqsUpTo(SelfLines, MaxRows)]
    /\ output = Pending
    /\ MainIdle

CallGetEvalue ==
    /\ input.fn = "get_evalue_from_hmm"
    /\ ~output.done
    /\ output' = [done |-> TRUE,
                  value |-> evalue_from_table(input.hmmtable, Correction)]
    /\ UNCHANGED <<input, mainvars>>

NextThreshold == CallGetEvalue

SpecThreshold == InitThreshold /\ [][NextThreshold]_vars

\* ------------------------------------------------------------------------
\* Specification of the sequence collector alone

MaxSpecies == 2
MaxHitsBound == 2

\* a row of a seed alignment: a residues, then x masked residues, then g gaps
AlignedRow(a, x, g) ==
    [k \in 1..(a + x + g) |-> IF k <= a THEN "A" ELSE IF k <= a + x THEN "X" ELSE "-"]

Protein(n) == [k \in 1..n |-> "A"]

TaxonIds == <<"taxon1", "taxon2", "taxon3", "taxon4">>

SeedRecord(k, gappedseq) ==
    [id |-> TaxonIds[k], description |-> "seed", seq |-> gappedseq]

\* seed alignments of 120 columns; ungapped lengths 100, 20 and 120
SeedAlignments ==
    LET r100 == AlignedRow(100, 0, 20)
        r20  == AlignedRow(20, 10, 90)
        r120 == AlignedRow(120, 0, 0)
        mk(rows) == [k \in 1..Len(rows) |-> SeedRecord(k, rows[k])]
    IN  {mk(<<r100>>), mk(<<r20, r100>>), mk(<<r100, r20, r120>>),
         mk(<<r120, r20, r100, r20>>)}

\* a hit list from the lengths of its proteins
HitIds == <<"hit1", "hit2", "hit3">>

HitList(lens) ==
    [k \in 1..Len(lens) |->
        [id |-> HitIds[k], description |-> "protein", seq |-> Protein(lens[k])]]

HitListChoices ==
    {HitList(<<>>), HitList(<<28>>), HitList(<<49>>), HitList(<<49, 50>>),
     HitList(<<50, 120>>), HitList(<<120, 49, 50>>)}

\* -l, a float of the command line (line 241)
LengthCutoffs == {float("0.5"), float("1"), float("0.28")}

SpeciesNamePool == <<"spA", "spB", "spC", "spD">>

InitCollect ==
    /\ \E n \in 0..MaxSpecies :
         input \in [fn : {"collect_sequences"},
                    alignment : SeedAlignments,
                    hitlistolists : [1..n -> HitListChoices],
                    lengthcutoff : LengthCutoffs,
                    speciesnames : {SubSeq(SpeciesNamePool, 1, n)},
                    maxhits : 0..MaxHitsBound,
                    dosupermatrix : BOOLEAN,
                    notrim : BOOLEAN]
    /\ output = Pending
    /\ MainIdle

CallCollectSequences ==
    /\ input.fn = "collect_sequences"
    /\ ~output.done
    /\ output' = [done |-> TRUE,
                  value |-> collect_sequences(input.alignment, input.hitlistolists,
                               input.lengthcutoff, input.speciesnames,
                               input.maxhits, input.dosupermatrix, input.notrim)]
    /\ UNCHANGED <<input, mainvars>>

NextCollect == CallCollectSequences

SpecCollect == InitCollect /\ [][NextCollect]_vars

\* ------------------------------------------------------------------------
\* Specification of the partition reader alone

MaxFileLen == 5

FileChars == {"1", "2", ":", ",", "\n", "x", " ", "-"}

InitPartitions ==
    /\ input \in [fn : {"get_partitions"}, content : SeqsUpTo(FileChars, MaxFileLen)]
    /\ output = Pending
    /\ MainIdle

CallGetPartitions ==
    /\ input.fn = "get_partitions"
    /\ ~output.done
    /\ output' = [done |-> TRUE, value |-> get_partitions(input.content)]
    /\ UNCHANGED <<input, mainvars>>

NextPartitions == CallGetPartitions

SpecPartitions == InitPartitions /\ [][NextPartitions]_vars

\* ------------------------------------------------------------------------
\* Specification of the alignment slicer alone

MaxCols == 3
MaxParts == 2

ResiduePool == <<"A", "C", "D", "E", "F", "G", "H", "I">>

\* alignments of n columns with one or two rows; the second row has gaps
SlicerAlignments ==
    UNION { { <<[id |-> "t1", description |-> "", seq |-> SubSeq(ResiduePool, 1, n)]>>,
              <<[id |-> "t1", description |-> "", seq |-> SubSeq(ResiduePool, 1, n)],
                [id |-> "t2", description |-> "",
                 seq |-> [k \in 1..n |-> IF k = 1 THEN "M" ELSE "-"]]>> }
            : n \in 1..MaxCols }

SlicerBounds == 0..(MaxCols + 1)

InitSlicer ==
    /\ input \in [fn : {"make_alignments"},
                  fullalignment : {Path("in", <<"full">>, "phy")},
                  alignedseqs : SlicerAlignments,
                  partitiondir : {"partitions"},
                  partitions : SeqsUpTo(SlicerBounds \X SlicerBounds, MaxParts)]
    /\ output = Pending
    /\ MainIdle

CallMakeAlignments ==
    /\ input.fn = "make_alignments"
    /\ ~output.done
    /\ output' = [done |-> TRUE,
                  value |-> make_alignments(input.fullalignment, input.alignedseqs,
                                             input.partitions, input.partitiondir)]
    /\ UNCHANGED <<input, mainvars>>

NextSlicer == CallMakeAlignments

SpecSlicer == InitSlicer /\ [][NextSlicer]_vars

\* ------------------------------------------------------------------------
\* main(): the environment of a run

\* the candidate species files, and what SeqIO.to_dict reads from each
SpeciesFile1 == Path("taxa", <<"sp1">>, "fasta")
SpeciesFile2 == Path("taxa", <<"sp2">>, "fasta")
TaxaDirectory == Path("", <<"taxa/">>, "")
MissingPath == Path("", <<"nowhere">>, "")

\* proteins p1, p2 and p3 of 100, 60 and 1 residues
seqdict_of(speciesfile) ==
    [t \in {"p1", "p2", "p3"} |->
        [id |-> t, description |-> speciesfile.stem[1],
         seq |-> Protein(IF t = "p1" THEN 100 ELSE IF t = "p2" THEN 60 ELSE 1)]]

\* the seed alignment files; geneA.aln and geneA.fas share their stem
AlignFileA == Path("aln", <<"geneA">>, "aln")
AlignFileB == Path("aln", <<"geneB">>, "aln")
AlignFileA2 == Path("aln", <<"geneA">>, "fas")
AlignDirectory == Path("", <<"aln/">>, "")

SeedRows(seqs) ==
    [r \in 1..Len(seqs) |-> [id |-> TaxonIds[r], description |-> "", seq |-> seqs[r]]]

\* geneA.aln has 120 columns, geneB.aln 80, geneA.fas 2; two rows each
SeedContent(alignfile) ==
    IF alignfile = AlignFileA
    THEN SeedRows(<<AlignedRow(100, 0, 20), AlignedRow(120, 0, 0)>>)
    ELSE IF alignfile = AlignFileB
    THEN SeedRows(<<AlignedRow(60, 10, 10), AlignedRow(2, 0, 78)>>)
    ELSE SeedRows(<<AlignedRow(2, 0, 0), AlignedRow(1, 0, 1)>>)

\* the alignment stored at a path: a part written by make_alignments, or a
\* seed file of the environment
ReadAlignment(fs, alignfile) ==
    IF alignfile \in DOMAIN fs THEN fs[alignfile].records ELSE SeedContent(alignfile)

\* the directories of the run: -I, and the time-stamped -d, -S and -E
PartitionDir == "partitions"
NewAlnDir == "new_taxa"
NewHmmDir == "hmm_hits"
NewSelfDir == "hmm_vs_self"

\* tables hmmsearch may write against a species file
SearchTables ==
    { <<HitLine("p1", float("1e-20"), 80), HitLine("p2", float("1e-15"), 50)>>,
      << <<"#">>, HitLine("p3", EZero, 30)>> }

\* tables hmmsearch may write for the self-search
SelfTables ==
    { <<HitLine("taxon1", EZero, 90)>>,
      <<HitLine("taxon1", float("1e-20"), 90)>>,
      << <<"#">>, HitLine("taxon1", float("1e-20"), 90), HitLine("taxon2", float("1e-10"), 70)>> }

PartitionFiles ==
    { <<"1", ":", "2", ",", "3", ":", "4">>, <<"1", ":", "2", ",", "3">>, <<"x", ":", "1">> }

MainInputs ==
    [fn : {"main"},
     taxa : {<<SpeciesFile1>>, <<SpeciesFile1, SpeciesFile2>>, <<TaxaDirectory>>,
             <<MissingPath>>},
     taxaglob : {<<>>, <<SpeciesFile1, SpeciesFile2>>, <<SpeciesFile2, SpeciesFile1>>},
     taxa_names : {<<>>, <<"Homo">>, <<"Homo", "Mus">>},
     alignments : {<<AlignFileA>>, <<AlignFileA, AlignFileB>>, <<AlignFileA, AlignFileA2>>,
                   <<AlignDirectory>>, <<MissingPath>>},
     alignglob : {<<>>, <<AlignFileA, AlignFileB>>, <<AlignFileB, AlignFileA>>},
     partition : {None} \cup {Some(content) : content \in PartitionFiles},
     evalue : {None, Some(float("1e-5"))},
     supermatrix : {None, Some(Path("", <<"supermatrix">>, "fasta")),
                    Some(Path("out", <<"matrix">>, ""))},
     no_trim : BOOLEAN,
     max_hits : {1, MaxHitsBound},
     length : {float("0.5")}]

\* os.path.isdir / os.path.isfile of the first -t or -a argument
pathkind(p) ==
    IF p \in {TaxaDirectory, AlignDirectory} THEN "dir"
    ELSE IF p = MissingPath THEN "missing" ELSE "file"

InitMain ==
    /\ input \in MainInputs
    /\ (pathkind(input.taxa[1]) # "dir") => input.taxaglob = <<>>
    /\ (pathkind(input.alignments[1]) # "dir") => input.alignglob = <<>>
    \* a supermatrix name without extension is tried with one species file
    /\ (input.supermatrix = Some(Path("out", <<"matrix">>, ""))) =>
          /\ input.taxa = <<SpeciesFile1>>
          /\ input.max_hits = 1
    /\ (input.partition # None) =>
          /\ input.alignments \in {<<AlignFileA>>, <<AlignFileA, AlignFileB>>, <<MissingPath>>}
          /\ input.taxa = <<SpeciesFile1>>
    /\ output = Pending
    /\ pc = "start"
    /\ error = None
    /\ idx = [a |-> 1, s |-> 1, h |-> 1]
    /\ newtaxafiles = <<>>
    /\ alignfiles = <<>>
    /\ hmmprofilelist = <<>>
    /\ aligntohmm = <<>>
    /\ evalueforhmmdict = <<>>
    /\ seqrecs_to_add = <<>>
    /\ speciesnames = <<>>
    /\ newspeciesfile = Unbound
    /\ nt_unaligned = None
    /\ nt_aligned = None
    /\ supermatrix = None
    /\ partitionlist = <<>>
    /\ runningsum = 0
    /\ files = <<>>
    /\ nooutput = {}
    /\ extended = <<>>
    /\ seqrecs_identity = <<>>

\* ------------------------------------------------------------------------
\* main(): the steps

\* args.taxa_names and len(args.taxa_names)!=len(args.taxa)
names_mismatch(taxa_names, taxa) ==
    taxa_names # <<>> /\ Len(taxa_names) # Len(taxa)

\* lines 263-274
ResolveTaxa ==
    /\ pc = "start"
    /\ LET kind == pathkind(input.taxa[1]) IN
       /\ newtaxafiles' = IF kind = "dir" THEN input.taxaglob
                          ELSE IF kind = "file" THEN input.taxa
                          ELSE newtaxafiles
       /\ IF kind = "missing"
          THEN pc' = "aborted" /\ error' = Raised("OSError", "Unknown new protein files")
          ELSE IF names_mismatch(input.taxa_names, input.taxa)
          THEN /\ pc' = "aborted"
               /\ error' = Raised("ValueError", "number of taxa names does not match number of files")
          ELSE pc' = "alignments" /\ error' = error
    /\ UNCHANGED <<input, output, idx, alignfiles, hmmprofilelist, aligntohmm,
                   evalueforhmmdict, seqrecs_to_add, seqrecs_identity, speciesnames, newspeciesfile,
                   nt_unaligned, nt_aligned, supermatrix, partitionlist, runningsum,
                   files, nooutput, extended>>

\* the part files of make_alignments, written in order
RECURSIVE WriteParts(_, _)
WriteParts(fs, parts) ==
    IF parts = <<>> THEN fs
    ELSE WriteParts(DictPut(fs, Head(parts).name,
                            [kind |-> "fasta", records |-> Head(parts).rows]),
                    Tail(parts))

\* lines 276-299
ResolveAlignments ==
    /\ pc = "alignments"
    /\ LET kind == pathkind(input.alignments[1]) IN
       IF input.partition # None
       THEN IF Len(input.alignments) > 1
            THEN /\ pc' = "aborted"
                 /\ error' = Raised("OSError", "Expecting 1 alignment")
                 /\ UNCHANGED <<alignfiles, files>>
            ELSE IF kind # "file"
            THEN /\ pc' = "aborted"
                 /\ error' = Raised("OSError", "Cannot find alignment for partitions")
                 /\ UNCHANGED <<alignfiles, files>>
            ELSE LET partitions == get_partitions(input.partition[1]) IN
                 IF ~partitions.ok
                 THEN /\ pc' = "aborted"
                      /\ error' = Raised("ValueError", "invalid literal for int()")
                      /\ UNCHANGED <<alignfiles, files>>
                 ELSE LET made == make_alignments(input.alignments[1],
                                     SeedContent(input.alignments[1]),
                                     partitions.partitions, PartitionDir)
                      IN  /\ files' = WriteParts(files, made.splitalignments)
                          /\ IF made.ok
                             THEN /\ alignfiles' = [k \in 1..Len(made.splitalignments) |->
                                                       made.splitalignments[k].name]
                                  /\ pc' = "dirs"
                                  /\ error' = error
                             ELSE /\ pc' = "aborted"
                                  /\ error' = Raised("IndexError", "tuple index out of range")
                                  /\ UNCHANGED alignfiles
       ELSE /\ alignfiles' = IF kind = "dir" THEN input.alignglob
                             ELSE IF kind = "file" THEN input.alignments
                             ELSE alignfiles
            /\ IF kind = "missing"
               THEN pc' = "aborted" /\ error' = Raised("OSError", "Unknown alignment files")
               ELSE pc' = "dirs" /\ error' = error
            /\ UNCHANGED files
    /\ UNCHANGED <<input, output, idx, newtaxafiles, hmmprofilelist, aligntohmm,
                   evalueforhmmdict, seqrecs_to_add, seqrecs_identity, speciesnames, newspeciesfile,
                   nt_unaligned, nt_aligned, supermatrix, partitionlist, runningsum,
                   nooutput, extended>>

\* lines 301-331: the output directories are made and the loop state is set
MakeDirectories ==
    /\ pc = "dirs"
    /\ pc' = IF alignfiles = <<>> THEN "names" ELSE "build"
    /\ supermatrix' = None
    /\ partitionlist' = <<>>
    /\ runningsum' = 0
    /\ UNCHANGED <<input, output, error, idx, newtaxafiles, alignfiles, hmmprofilelist,
                   aligntohmm, evalueforhmmdict, seqrecs_to_add, seqrecs_identity, speciesnames,
                   newspeciesfile, nt_unaligned, nt_aligned, files, nooutput, extended>>

\* the position after the profile of alignment a is complete
AfterProfile(a) ==
    /\ pc' = IF a < Len(alignfiles) THEN "build" ELSE "names"
    /\ idx' = [idx EXCEPT !.a = IF a < Len(alignfiles) THEN a + 1 ELSE 1]

\* lines 340-342 and run_hmmbuild; with -e, lines 343-344 too
RunHmmbuild ==
    /\ pc = "build"
    /\ \E produced \in BOOLEAN :
         LET alignment == alignfiles[idx.a]
             hmm_output == hmm_output_of(alignment)
             fs == IF produced
                   THEN DictPut(files, hmm_output, [kind |-> "hmm", of |-> alignment])
                   ELSE files
         IN  /\ files' = fs
             /\ nooutput' = IF produced \/ isfile(files, hmm_output) THEN nooutput
                            ELSE nooutput \cup {hmm_output}
             /\ IF isfile(fs, hmm_output)
                THEN /\ aligntohmm' = DictPut(aligntohmm, alignment, hmm_output)
                     /\ hmmprofilelist' = Append(hmmprofilelist, hmm_output)
                     /\ error' = error
                     /\ IF input.evalue # None
                        THEN /\ evalueforhmmdict' =
                                   DictPut(evalueforhmmdict, hmm_output, input.evalue[1])
                             /\ AfterProfile(idx.a)
                        ELSE /\ pc' = "evalue"
                             /\ UNCHANGED <<evalueforhmmdict, idx>>
                ELSE /\ pc' = "aborted"
                     /\ error' = MissingOutput(hmm_output)
                     /\ UNCHANGED <<aligntohmm, hmmprofilelist, evalueforhmmdict, idx>>
    /\ UNCHANGED <<input, output, newtaxafiles, alignfiles, seqrecs_to_add, seqrecs_identity, speciesnames,
                   newspeciesfile, nt_unaligned, nt_aligned, supermatrix, partitionlist,
                   runningsum, extended>>

\* lines 343-344 without -e: get_evalue_from_hmm
GetEvalueFromHmm ==
    /\ pc = "evalue"
    /\ \E produced \in BOOLEAN, table \in SelfTables :
         LET alignment == alignfiles[idx.a]
             hmmprofile == hmmprofilelist[Len(hmmprofilelist)]
             fasta_unaligned == fasta_unaligned_of(alignment, NewSelfDir)
             hmmtbl_output == self_hmmtbl_output_of(alignment, NewSelfDir)
             un == unalign_sequences(ReadAlignment(files, alignment), TRUE, FALSE, TRUE)
             fs1 == DictPut(files, fasta_unaligned,
                            [kind |-> "fasta", records |-> un.written])
             fs2 == IF produced
                    THEN DictPut(fs1, hmmtbl_output, [kind |-> "table", lines |-> table])
                    ELSE fs1
         IN  /\ files' = fs2
             /\ nooutput' = IF produced \/ isfile(files, hmmtbl_output) THEN nooutput
                            ELSE nooutput \cup {hmmtbl_output}
             /\ IF isfile(fs2, hmmtbl_output)
                THEN /\ evalueforhmmdict' =
                           DictPut(evalueforhmmdict, hmmprofile,
                                   evalue_from_table(fs2[hmmtbl_output].lines, Correction))
                     /\ error' = error
                     /\ AfterProfile(idx.a)
                ELSE /\ pc' = "aborted"
                     /\ error' = MissingOutput(hmmtbl_output)
                     /\ UNCHANGED <<evalueforhmmdict, idx>>
    /\ UNCHANGED <<input, output, newtaxafiles, alignfiles, hmmprofilelist, aligntohmm,
                   seqrecs_to_add, seqrecs_identity, speciesnames, newspeciesfile, nt_unaligned,
                   nt_aligned, supermatrix, partitionlist, runningsum, extended>>

\* the position after the search loop: the loop of line 363 runs once per
\* alignment, and not at all when there is none
AfterSearch == IF alignfiles = <<>> THEN "finish" ELSE "collect"

\* lines 348-350
SpeciesNames ==
    /\ pc = "names"
    /\ LET fallback == basenames_of(newtaxafiles, newspeciesfile) IN
       IF input.taxa_names # <<>>
       THEN /\ speciesnames' = input.taxa_names
            /\ pc' = IF newtaxafiles = <<>> THEN AfterSearch ELSE "search"
            /\ error' = error
       ELSE IF fallback.ok
       THEN /\ speciesnames' = fallback.names
            /\ pc' = IF newtaxafiles = <<>> THEN AfterSearch ELSE "search"
            /\ error' = error
       ELSE /\ pc' = "aborted"
            /\ error' = Raised("NameError", "newspeciesfile referenced before assignment")
            /\ UNCHANGED speciesnames
    /\ seqrecs_to_add' = <<>>
    /\ seqrecs_identity' = <<>>
    /\ UNCHANGED <<input, output, idx, newtaxafiles, alignfiles, hmmprofilelist,
                   aligntohmm, evalueforhmmdict, newspeciesfile, nt_unaligned,
                   nt_aligned, supermatrix, partitionlist, runningsum, files,
                   nooutput, extended>>

\* lines 351-360, one profile against one species file: run_hmmsearch, then
\* hmmtable_to_seqids and the look-up of the hits in seqdict
RunHmmsearch ==
    /\ pc = "search"
    /\ hmmprofilelist # <<>>
    /\ \E produced \in BOOLEAN, table \in SearchTables :
         LET fastafile == newtaxafiles[idx.s]
             hmmprof == hmmprofilelist[idx.h]
             hmmtbl_output == hmmtbl_output_of(hmmprof, fastafile, NewHmmDir)
             fs == IF produced
                   THEN DictPut(files, hmmtbl_output, [kind |-> "table", lines |-> table])
                   ELSE files
             lasth == idx.h = Len(hmmprofilelist)
             lasts == idx.s = Len(newtaxafiles)
         IN  /\ newspeciesfile' = Some(fastafile)
             /\ files' = fs
             /\ nooutput' = IF produced \/ isfile(files, hmmtbl_output) THEN nooutput
                            ELSE nooutput \cup {hmmtbl_output}
             /\ IF isfile(fs, hmmtbl_output)
                THEN LET seqids == hmmtable_to_seqids(fs[hmmtbl_output].lines,
                                       evalueforhmmdict[hmmprof], ScoreCutoffDefault)
                         seqids_to_add == [k \in 1..Len(seqids) |->
                                              seqdict_of(fastafile)[seqids[k]]]
                     IN  /\ seqrecs_to_add' =
                               DictPut(seqrecs_to_add, hmmprof,
                                       Append(DictGetList(seqrecs_to_add, hmmprof),
                                              seqids_to_add))
                         /\ seqrecs_identity' =
                               DictPut(seqrecs_identity, hmmprof,
                                       Append(DictGetList(seqrecs_identity, hmmprof),
                                              [k \in 1..Len(seqids) |->
                                                  <<idx.s, seqids[k]>>]))
                         /\ error' = error
                         /\ pc' = IF lasth /\ lasts THEN "collect" ELSE "search"
                         /\ idx' = [idx EXCEPT
                                      !.h = IF lasth THEN 1 ELSE idx.h + 1,
                                      !.s = IF ~lasth THEN idx.s
                                            ELSE IF lasts THEN 1 ELSE idx.s + 1]
                ELSE /\ pc' = "aborted"
                     /\ error' = MissingOutput(hmmtbl_output)
                     /\ UNCHANGED <<seqrecs_to_add, seqrecs_identity, idx>>
    /\ UNCHANGED <<input, output, newtaxafiles, alignfiles, hmmprofilelist, aligntohmm,
                   evalueforhmmdict, speciesnames, nt_unaligned, nt_aligned,
                   supermatrix, partitionlist, runningsum, extended>>

\* lines 351-354 when no profile was built: the species files are read one
\* by one and nothing is searched
ReadSpecies ==
    /\ pc = "search"
    /\ hmmprofilelist = <<>>
    /\ newspeciesfile' = Some(newtaxafiles[idx.s])
    /\ pc' = IF idx.s = Len(newtaxafiles) THEN AfterSearch ELSE "search"
    /\ idx' = [idx EXCEPT !.s = IF idx.s = Len(newtaxafiles) THEN 1 ELSE idx.s + 1]
    /\ UNCHANGED <<input, output, error, newtaxafiles, alignfiles, hmmprofilelist,
                   aligntohmm, evalueforhmmdict, seqrecs_to_add, seqrecs_identity,
                   speciesnames, nt_unaligned, nt_aligned, supermatrix, partitionlist,
                   runningsum, files, nooutput, extended>>

\* seqrec.id = str(speciesnames[i]); seqrec.description = "" done to the
\* objects at the positions kept (in that order) of the lists of one
\* profile: the name each renamed object is left with
renamed_objects(identities, kept, names) ==
    LET objects == {identities[kept[k][1]][kept[k][2]] : k \in 1..Len(kept)}
        last(object) == CHOOSE k \in 1..Len(kept) :
                           /\ identities[kept[k][1]][kept[k][2]] = object
                           /\ \A j \in (k + 1)..Len(kept) :
                                 identities[kept[j][1]][kept[j][2]] # object
    IN  [object \in objects |-> names[kept[last(object)][1]]]

\* the records of every list after the renaming of some objects
rename_records(recs, identities, newnames) ==
    [h \in DOMAIN recs |->
        [i \in 1..Len(recs[h]) |->
            [j \in 1..Len(recs[h][i]) |->
                IF identities[h][i][j] \in DOMAIN newnames
                THEN [recs[h][i][j] EXCEPT !.id = newnames[identities[h][i][j]],
                                           !.description = ""]
                ELSE recs[h][i][j]]]]

\* lines 363-365: collect_sequences for one seed alignment.  In supermatrix
\* mode the records written are renamed in place (lines 182-183): they are
\* the objects held in seqrecs_to_add, under every profile that hit them.
CollectSequences ==
    /\ pc = "collect"
    /\ LET alignment == alignfiles[idx.a]
           hmmprofile == aligntohmm[alignment]
           unalignednewtaxa == nt_unaligned_of(alignment, NewAlnDir)
           collected == collect_sequences(ReadAlignment(files, alignment),
                            DictGetList(seqrecs_to_add, hmmprofile), input.length,
                            speciesnames, input.max_hits, input.supermatrix # None,
                            input.no_trim)
       IN  /\ nt_unaligned' = Some(unalignednewtaxa)
           /\ seqrecs_identity' = DictPut(seqrecs_identity, hmmprofile,
                                          DictGetList(seqrecs_identity, hmmprofile))
           /\ seqrecs_to_add' =
                 LET touched == DictPut(seqrecs_to_add, hmmprofile,
                                        DictGetList(seqrecs_to_add, hmmprofile))
                 IN  IF input.supermatrix # None
                     THEN rename_records(touched, seqrecs_identity',
                                         renamed_objects(seqrecs_identity'[hmmprofile],
                                                         collected.kept, speciesnames))
                     ELSE touched
           /\ files' = DictPut(files, unalignednewtaxa,
                               [kind |-> "fasta",
                                records |-> collected.seeds \o collected.appended])
           /\ IF collected.ok
              THEN pc' = "align" /\ error' = error
              ELSE /\ pc' = "aborted"
                   /\ error' = Raised("IndexError", "list index out of range")
    /\ UNCHANGED <<input, output, idx, newtaxafiles, alignfiles, hmmprofilelist,
                   aligntohmm, evalueforhmmdict, speciesnames, newspeciesfile,
                   nt_aligned, supermatrix, partitionlist, runningsum, nooutput,
                   extended>>

\* the identifiers of the records of a fasta file
RecordIds(records) == [r \in 1..Len(records) |-> records[r].id]

\* the longest sequence among some records
MaxLength(records) ==
    IF records = <<>> THEN 0
    ELSE LET lens == {Len(records[r].seq) : r \in 1..Len(records)} IN
         CHOOSE m \in lens : \A l \in lens : l <= m

\* lines 366-367 and run_mafft (-r): free realignment of the raw sequences.
\* The aligner returns one row per record and may open new gap columns.
RunMafft ==
    /\ pc = "align"
    /\ input.no_trim
    /\ \E produced \in BOOLEAN, newgaps \in {0, 1} :
         LET rawseqs == files[nt_unaligned[1]].records
             aln_output == aln_output_of(nt_unaligned[1])
             opened == DictPut(files, aln_output, EmptyFile)
             fs == IF produced
                   THEN DictPut(files, aln_output,
                                [kind |-> "alignment",
                                 ids |-> RecordIds(rawseqs),
                                 cols |-> MaxLength(rawseqs) + newgaps])
                   ELSE opened
         IN  /\ files' = fs
             /\ nooutput' = IF produced \/ isfile(files, aln_output) THEN nooutput
                            ELSE nooutput \cup {aln_output}
             /\ IF isfile(fs, aln_output)
                THEN nt_aligned' = Some(aln_output) /\ pc' = "concat" /\ error' = error
                ELSE /\ pc' = "aborted"
                     /\ error' = MissingOutput(aln_output)
                     /\ UNCHANGED nt_aligned
    /\ UNCHANGED <<input, output, idx, newtaxafiles, alignfiles, hmmprofilelist,
                   aligntohmm, evalueforhmmdict, seqrecs_to_add, seqrecs_identity, speciesnames,
                   newspeciesfile, nt_unaligned, supermatrix, partitionlist,
                   runningsum, extended>>

\* lines 368-369 and run_mafft_addlong: the new records are added to the old
\* alignment, whose column count is kept (--keeplength)
RunMafftAddlong ==
    /\ pc = "align"
    /\ ~input.no_trim
    /\ \E produced \in BOOLEAN :
         LET oldalignment == ReadAlignment(files, alignfiles[idx.a])
             rawseqs == files[nt_unaligned[1]].records
             aln_output == aln_output_of(nt_unaligned[1])
             opened == DictPut(files, aln_output, EmptyFile)
             fs == IF produced
                   THEN DictPut(files, aln_output,
                                [kind |-> "alignment",
                                 ids |-> RecordIds(oldalignment) \o RecordIds(rawseqs),
                                 cols |-> Len(oldalignment[1].seq)])
                   ELSE opened
         IN  /\ files' = fs
             /\ nooutput' = IF produced \/ isfile(files, aln_output) THEN nooutput
                            ELSE nooutput \cup {aln_output}
             /\ IF isfile(fs, aln_output)
                THEN nt_aligned' = Some(aln_output) /\ pc' = "concat" /\ error' = error
                ELSE /\ pc' = "aborted"
                     /\ error' = MissingOutput(aln_output)
                     /\ UNCHANGED nt_aligned
    /\ UNCHANGED <<input, output, idx, newtaxafiles, alignfiles, hmmprofilelist,
                   aligntohmm, evalueforhmmdict, seqrecs_to_add, seqrecs_identity, speciesnames,
                   newspeciesfile, nt_unaligned, supermatrix, partitionlist,
                   runningsum, extended>>

\* lines 371-379: AlignIO.read raises ValueError on a file with no record;
\* adding alignments of different row counts raises ValueError as well,
\* after the descriptor has been appended and the sum advanced
ReadAndConcatenate ==
    /\ pc = "concat"
    /\ LET content == files[nt_aligned[1]] IN
       IF content.kind = "empty"
       THEN /\ pc' = "aborted"
            /\ error' = Raised("ValueError", "No records found in handle")
            /\ UNCHANGED <<partitionlist, runningsum, supermatrix, extended>>
       ELSE LET newaligned == [ids |-> content.ids, cols |-> content.cols]
                alignment_length == newaligned.cols
            IN  /\ partitionlist' = Append(partitionlist,
                                       partition_descriptor(runningsum, alignment_length))
                /\ runningsum' = runningsum + alignment_length
                /\ extended' = Append(extended, newaligned)
                /\ IF supermatrix = None
                   THEN supermatrix' = Some(newaligned) /\ pc' = "tree" /\ error' = error
                   ELSE IF Len(supermatrix[1].ids) # Len(newaligned.ids)
                   THEN /\ pc' = "aborted"
                        /\ error' = Raised("ValueError", "alignments must have the same number of rows")
                        /\ UNCHANGED supermatrix
                   ELSE /\ supermatrix' = Some(concatenate(supermatrix[1], newaligned))
                        /\ pc' = "tree"
                        /\ error' = error
    /\ UNCHANGED <<input, output, idx, newtaxafiles, alignfiles, hmmprofilelist,
                   aligntohmm, evalueforhmmdict, seqrecs_to_add, seqrecs_identity, speciesnames,
                   newspeciesfile, nt_unaligned, nt_aligned, files, nooutput>>

\* line 380 and run_tree
RunTree ==
    /\ pc = "tree"
    /\ \E produced \in BOOLEAN :
         LET tree_output == tree_output_of(nt_aligned[1])
             opened == DictPut(files, tree_output, EmptyFile)
             fs == IF produced
                   THEN DictPut(files, tree_output, [kind |-> "tree", of |-> nt_aligned[1]])
                   ELSE opened
         IN  /\ files' = fs
             /\ nooutput' = IF produced \/ isfile(files, tree_output) THEN nooutput
                            ELSE nooutput \cup {tree_output}
             /\ IF isfile(fs, tree_output)
                THEN /\ pc' = IF idx.a < Len(alignfiles) THEN "collect" ELSE "finish"
                     /\ idx' = [idx EXCEPT !.a = IF idx.a < Len(alignfiles)
                                                 THEN idx.a + 1 ELSE 1]
                     /\ error' = error
                ELSE /\ pc' = "aborted"
                     /\ error' = MissingOutput(tree_output)
                     /\ UNCHANGED idx
    /\ UNCHANGED <<input, output, newtaxafiles, alignfiles, hmmprofilelist, aligntohmm,
                   evalueforhmmdict, seqrecs_to_add, seqrecs_identity, speciesnames, newspeciesfile,
                   nt_unaligned, nt_aligned, supermatrix, partitionlist, runningsum,
                   extended>>

\* "{}.partition.txt".format(args.supermatrix): the whole name, its
\* extension (if it has one) included, becomes the stem
partition_file_of(name) ==
    Path(name.dir,
         name.stem \o (IF name.ext = "" THEN <<>> ELSE <<".", name.ext>>)
                   \o <<".partition">>,
         "txt")

\* lines 382-388
Finish ==
    /\ pc = "finish"
    /\ IF input.supermatrix = None
       THEN pc' = "done" /\ UNCHANGED <<error, files>>
       ELSE IF supermatrix = None
       THEN \* AlignIO.write(None, ...): the library may open the file for
            \* writing before it fails on the missing alignment
            /\ pc' = "aborted"
            /\ error' = Raised("TypeError", "no alignment to write")
            /\ \E opened \in BOOLEAN :
                  files' = IF opened
                           THEN DictPut(files, input.supermatrix[1],
                                        [kind |-> "text", text |-> <<>>])
                           ELSE files
       ELSE /\ files' = DictPut(DictPut(files, input.supermatrix[1],
                                        [kind |-> "alignment", ids |-> supermatrix[1].ids,
                                         cols |-> supermatrix[1].cols]),
                                partition_file_of(input.supermatrix[1]),
                                [kind |-> "text",
                                 text |-> join_partitions(partitionlist) \o <<"\n">>])
            /\ pc' = "done"
            /\ UNCHANGED error
    /\ UNCHANGED <<input, output, idx, newtaxafiles, alignfiles, hmmprofilelist,
                   aligntohmm, evalueforhmmdict, seqrecs_to_add, seqrecs_identity, speciesnames,
                   newspeciesfile, nt_unaligned, nt_aligned, supermatrix,
                   partitionlist, runningsum, nooutput, extended>>

Next ==
    \/ ResolveTaxa
    \/ ResolveAlignments
    \/ MakeDirectories
    \/ RunHmmbuild
    \/ GetEvalueFromHmm
    \/ SpeciesNames
    \/ RunHmmsearch
    \/ ReadSpecies
    \/ CollectSequences
    \/ RunMafft
    \/ RunMafftAddlong
    \/ ReadAndConcatenate
    \/ RunTree
    \/ Finish

Spec == InitMain /\ [][Next]_vars

\* ========================================================================
\* Claims

\* the rows of a table that are hits (neither empty nor comments)
HitRows(table) == {k \in 1..Len(table) : Len(table[k]) = 6}

SetMax(S) == CHOOSE m \in S : \A x \in S : x <= m

\* row k passes: significance <= cutoff, and twice the score exceeds the
\* largest score among the hit rows 1..k
C1_Passes(table, cutoff, k) ==
    /\ k \in HitRows(table)
    /\ ELeq(table[k][5], cutoff)
    /\ 2 * table[k][6] > SetMax({table[j][6] : j \in {h \in HitRows(table) : h <= k}})

RECURSIVE C1_Expected(_, _, _)
C1_Expected(table, cutoff, k) ==
    IF k = 0 THEN <<>>
    ELSE IF C1_Passes(table, cutoff, k)
         THEN Append(C1_Expected(table, cutoff, k - 1), table[k][1])
         ELSE C1_Expected(table, cutoff, k - 1)

\* C1: hmmtable_to_seqids with the default fraction 0.5 returns, in row
\* order, exactly the targets of the hit rows whose significance is <= the
\* cutoff and whose score is strictly greater than half the maximum score
\* over all hit rows up to and including that row.
C1_HitFilter ==
    (input.fn = "hmmtable_to_seqids" /\ input.scorecutoff = ScoreCutoffDefault
        /\ output.done) =>
        output.value = C1_Expected(input.hmmtable, input.evaluecutoff,
                                   Len(input.hmmtable))

\* C1 witness: scores 50, 80, 40 under a cutoff that admits every
\* significance: rows 1 and 2 are accepted, row 3 is rejected.
C1_Witness ==
    /\ input.fn = "hmmtable_to_seqids" /\ output.done
    /\ input.scorecutoff = ScoreCutoffDefault
    /\ Len(input.hmmtable) = 3
    /\ HitRows(input.hmmtable) = {1, 2, 3}
    /\ [k \in 1..3 |-> input.hmmtable[k][6]] = <<50, 80, 40>>
    /\ \A k \in 1..3 : ELeq(input.hmmtable[k][5], input.evaluecutoff)
    /\ input.hmmtable[1][1] # input.hmmtable[2][1]
    /\ output.value = <<input.hmmtable[1][1], input.hmmtable[2][1]>>

\* a natural number as limbs of 14 bits, least significant first, times a
\* factor below 2^16
RECURSIVE C2_Times(_, _, _)
C2_Times(n, factor, carry) ==
    IF n = <<>> THEN (IF carry = 0 THEN <<>> ELSE C2_Times(<<carry>>, 1, 0))
    ELSE LET total == Head(n) * factor + carry IN
         <<total % LimbBase>> \o C2_Times(Tail(n), factor, total \div LimbBase)

\* n + k for a small k
C2_Plus(n, k) == C2_Times(n, 1, k)

\* x <= y on such numbers
C2_Leq(x, y) ==
    LET len == IF Len(x) > Len(y) THEN Len(x) ELSE Len(y)
        at(n, i) == IF i <= Len(n) THEN n[i] ELSE 0
    IN  \A i \in 1..len :
            (at(x, i) > at(y, i)) => \E j \in (i + 1)..len : at(x, j) < at(y, j)

\* the significand of a double, least significant limb first
C2_Significand(x) == <<x.m[4], x.m[3], x.m[2], x.m[1]>>

\* p is the double product of x and 100000: a double whose distance from
\* the exact product is at most half a unit in its last place
C2_IsProduct(p, x) ==
    \E shift \in {16, 17} :
        /\ p.e = x.e + shift
        /\ Len(p.m) = 4 /\ p.m[1] \in 1024..2047
        /\ LET scaled == IF shift = 16
                         THEN C2_Times(C2_Times(C2_Significand(p), 256, 0), 256, 0)
                         ELSE C2_Times(C2_Times(C2_Significand(p), 256, 0), 512, 0)
               exact  == C2_Times(C2_Times(C2_Significand(x), 400, 0), 250, 0)
               half   == IF shift = 16 THEN 32768 ELSE 65536
           IN  /\ C2_Leq(exact, C2_Plus(scaled, half))
               /\ C2_Leq(scaled, C2_Plus(exact, half))

\* C2: get_evalue_from_hmm returns the maximum self-hit significance times
\* 1e5 (the product of doubles: the exact product rounded to a double),
\* except that it returns exactly 1e-300 when every self-hit significance
\* is zero.
C2_Threshold ==
    (input.fn = "get_evalue_from_hmm" /\ output.done) =>
        LET selfhits == {input.hmmtable[k][5] : k \in HitRows(input.hmmtable)} IN
        IF \A e \in selfhits : e = float("0")
        THEN output.value = float("1e-300")
        ELSE \E m \in selfhits :
                /\ \A e \in selfhits : ELeq(e, m)
                /\ C2_IsProduct(output.value, m)

\* C2 witness: self-hit values 1e-20, 1e-15, 1e-10 give 1e-5.
C2_Witness ==
    /\ input.fn = "get_evalue_from_hmm" /\ output.done
    /\ Len(input.hmmtable) = 3
    /\ HitRows(input.hmmtable) = {1, 2, 3}
    /\ [k \in 1..3 |-> input.hmmtable[k][5]]
          = <<float("1e-20"), float("1e-15"), float("1e-10")>>
    /\ output.value = float("1e-5")

\* the upper median of the ungapped lengths of the seed rows
C3_Median(alignment) ==
    LET size(k) == Cardinality({c \in 1..Len(alignment[k].seq) :
                                   alignment[k].seq[c] \notin {"-", "X"}})
        rows == 1..Len(alignment)
    IN  CHOOSE m \in {size(k) : k \in rows} :
            /\ Cardinality({k \in rows : size(k) < m}) <= Len(alignment) \div 2
            /\ Cardinality({k \in rows : size(k) <= m}) > Len(alignment) \div 2

\* the length-ratio as the fraction <<numerator, denominator>> its decimal
\* text denotes
C3_Ratio(lengthcutoff) ==
    CASE lengthcutoff = float("0.5") -> <<1, 2>>
      [] lengthcutoff = float("1") -> <<1, 1>>
      [] lengthcutoff = float("0.28") -> <<7, 25>>

\* a hit of length n qualifies: n >= median x length-ratio.  A length
\* beyond the exact product qualifies and a length short of it does not;
\* when n is the exact product, the product the program forms in double
\* precision decides (100 x 0.5 is 50.0, so 50 qualifies; 100 x 0.28 is
\* 28.000000000000004, so 28 does not).
C3_Qualifies(n, median, lengthcutoff) ==
    LET ratio == C3_Ratio(lengthcutoff) IN
    \/ n * ratio[2] > median * ratio[1]
    \/ /\ n * ratio[2] = median * ratio[1]
       /\ ~EGt(EScale(IntToDouble(median), lengthcutoff), IntToDouble(n))

\* what species i is to contribute
C3_Segment(in, i) ==
    LET median == C3_Median(in.alignment)
        qualifying == SelectSeq(in.hitlistolists[i],
                         LAMBDA h : C3_Qualifies(Len(h.seq), median,
                                                 in.lengthcutoff))
        kept == SubSeq(qualifying, 1, Min2(in.maxhits, Len(qualifying)))
    IN  IF kept = <<>>
        THEN <<[id |-> in.speciesnames[i], description |-> "", seq |-> <<>>]>>
        ELSE IF in.dosupermatrix
             THEN [k \in 1..Len(kept) |->
                      [id |-> in.speciesnames[i], description |-> "",
                       seq |-> kept[k].seq]]
             ELSE kept

RECURSIVE C3_Expected(_, _)
C3_Expected(in, i) ==
    IF i = 0 THEN <<>> ELSE C3_Expected(in, i - 1) \o C3_Segment(in, i)

\* C3: collect_sequences appends, species by species, the first
\* min(maxhits, number of qualifying hits) qualifying hits in hit order, a
\* hit qualifying iff its length >= median seed length x length-ratio (the
\* product as the program forms it, in double precision); a
\* species with no such record gets one empty placeholder under its name;
\* every species contributes at least 1 and at most max(1, maxhits) records.
C3_Collector ==
    (input.fn = "collect_sequences" /\ output.done) =>
        /\ output.value.ok
        /\ output.value.appended = C3_Expected(input, Len(input.hitlistolists))
        /\ Len(output.value.counts) = Len(input.hitlistolists)
        /\ \A i \in 1..Len(input.hitlistolists) :
              /\ output.value.counts[i] >= 1
              /\ output.value.counts[i] <= Max2(1, input.maxhits)
              /\ output.value.counts[i] = Len(C3_Segment(input, i))

\* C3 witness: median 100 and ratio 0.5; the species whose hits have lengths
\* 49 and 50 contributes the hit of length 50 alone, and a species whose
\* only hit has length 49 gets the placeholder.
C3_Witness ==
    /\ input.fn = "collect_sequences" /\ output.done
    /\ C3_Median(input.alignment) = 100
    /\ input.lengthcutoff = float("0.5")
    /\ input.maxhits = 1
    /\ ~input.dosupermatrix
    /\ Len(input.hitlistolists) = 2
    /\ Len(input.hitlistolists[1]) = 2
    /\ [k \in 1..2 |-> Len(input.hitlistolists[1][k].seq)] = <<49, 50>>
    /\ Len(input.hitlistolists[2]) = 1 /\ Len(input.hitlistolists[2][1].seq) = 49
    /\ output.value.appended =
          <<input.hitlistolists[1][2],
            [id |-> input.speciesnames[2], description |-> "", seq |-> <<>>]>>

\* the column count of a written part (every row has the same)
C5_Columns(part) == Len(part.rows[1].seq)

C5_Ids(rows) == [r \in 1..Len(rows) |-> rows[r].id]

\* C5 as stated: one sub-alignment per partition, each of end-start+1
\* columns, each keeping all row identifiers in order, for every alignment
\* and every partition list.  The column count is asked only of intervals
\* with 1 <= start <= end (the data model's partitions), whatever the
\* alignment's width.
C5_SlicerAnyPartition ==
    (input.fn = "make_alignments" /\ output.done) =>
        /\ output.value.ok
        /\ Len(output.value.splitalignments) = Len(input.partitions)
        /\ \A k \in 1..Len(input.partitions) :
              /\ (1 <= input.partitions[k][1]
                    /\ input.partitions[k][1] <= input.partitions[k][2]) =>
                 C5_Columns(output.value.splitalignments[k])
                    = input.partitions[k][2] - input.partitions[k][1] + 1
              /\ C5_Ids(output.value.splitalignments[k].rows)
                    = C5_Ids(input.alignedseqs)

\* the interval lies inside the alignment: 1 <= start <= end <= columns
C5_InRange(part, alignedseqs) ==
    1 <= part[1] /\ part[1] <= part[2] /\ part[2] <= Len(alignedseqs[1].seq)

\* C5 (amended): make_alignments produces one sub-alignment per partition in
\* partition order, every sub-alignment keeps all row identifiers in order,
\* and a sub-alignment whose interval satisfies 1 <= start <= end <= number
\* of columns has end-start+1 columns.
C5_SlicerInRange ==
    (input.fn = "make_alignments" /\ output.done) =>
        /\ output.value.ok
        /\ Len(output.value.splitalignments) = Len(input.partitions)
        /\ \A k \in 1..Len(input.partitions) :
              /\ output.value.splitalignments[k].name.dir = input.partitiondir
              /\ C5_Ids(output.value.splitalignments[k].rows)
                    = C5_Ids(input.alignedseqs)
              /\ C5_InRange(input.partitions[k], input.alignedseqs) =>
                    C5_Columns(output.value.splitalignments[k])
                       = input.partitions[k][2] - input.partitions[k][1] + 1

\* C5 witness: a two-row alignment of three columns cut by 1:1 and 2:3 gives
\* parts of one and two columns.
C5_Witness ==
    /\ input.fn = "make_alignments" /\ output.done
    /\ Len(input.alignedseqs) = 2
    /\ Len(input.alignedseqs[1].seq) = 3
    /\ input.partitions = <<(<<1, 1>>), (<<2, 3>>)>>
    /\ Len(output.value.splitalignments) = 2
    /\ C5_Columns(output.value.splitalignments[1]) = 1
    /\ C5_Columns(output.value.splitalignments[2]) = 2
    /\ output.value.splitalignments[2].rows[1].seq = <<"C", "D">>

\* the comma-delimited tokens of the non-empty lines, in file order
RECURSIVE C6_Flatten(_)
C6_Flatten(lists) ==
    IF lists = <<>> THEN <<>> ELSE Head(lists) \o C6_Flatten(Tail(lists))

\* a line without the blanks at its ends
C6_Trimmed(line) ==
    LET inked == {k \in 1..Len(line) : line[k] \notin Whitespace} IN
    IF inked = {} THEN <<>>
    ELSE SubSeq(line, CHOOSE k \in inked : \A j \in inked : k <= j,
                      CHOOSE k \in inked : \A j \in inked : k >= j)

C6_Tokens(content) ==
    LET raw == SplitOn(content, "\n")
        lines == SelectSeq([l \in 1..Len(raw) |-> C6_Trimmed(raw[l])],
                           LAMBDA l : l # <<>>)
    IN  C6_Flatten([l \in 1..Len(lines) |-> SplitOn(lines[l], ",")])

\* a decimal integer as int() reads one: digits, with an optional sign in
\* front, and blanks allowed around the sign and around the whole
C6_IsInteger(field) ==
    LET body == C6_Trimmed(field)
        digits == IF body # <<>> /\ body[1] \in {"+", "-"}
                  THEN C6_Trimmed(Tail(body)) ELSE body
    IN  /\ digits # <<>>
        /\ \A k \in 1..Len(digits) : digits[k] \in {"1", "2"}

\* the whole number a field denotes
C6_Value(field) ==
    LET body == C6_Trimmed(field)
        digits == SelectSeq(body, LAMBDA c : c \in {"1", "2"})
        RECURSIVE value(_)
        value(ds) == IF ds = <<>> THEN 0
                     ELSE 10 * value(SubSeq(ds, 1, Len(ds) - 1))
                          + (IF ds[Len(ds)] = "1" THEN 1 ELSE 2)
    IN  IF body[1] = "-" THEN 0 - value(digits) ELSE value(digits)

\* exactly two integer bounds separated by exactly one ':'
C6_WellFormed(token) ==
    \E p \in 2..(Len(token) - 1) :
        /\ token[p] = ":"
        /\ \A k \in (1..Len(token)) \ {p} : token[k] # ":"
        /\ C6_IsInteger(SubSeq(token, 1, p - 1))
        /\ C6_IsInteger(SubSeq(token, p + 1, Len(token)))

C6_Pair(token) ==
    LET p == CHOOSE k \in 1..Len(token) : token[k] = ":" IN
    <<C6_Value(SubSeq(token, 1, p - 1)), C6_Value(SubSeq(token, p + 1, Len(token)))>>

\* C6: get_partitions fails with a parse error whenever some token is not
\* exactly two integer bounds separated by exactly one ':', and otherwise
\* returns one (start, end) pair per token in file order.
C6_ParseErrorOnMalformedToken ==
    (input.fn = "get_partitions" /\ output.done) =>
        LET tokens == C6_Tokens(input.content) IN
        IF \A k \in 1..Len(tokens) : C6_WellFormed(tokens[k])
        THEN /\ output.value.ok
             /\ output.value.partitions = [k \in 1..Len(tokens) |-> C6_Pair(tokens[k])]
        ELSE ~output.value.ok

\* the columns of the first j of some alignments
RECURSIVE C4_ColumnsUpTo(_, _)
C4_ColumnsUpTo(alns, j) ==
    IF j = 0 THEN 0 ELSE C4_ColumnsUpTo(alns, j - 1) + alns[j].cols

\* the (start, end) pairs the claim gives for the alignments read so far
C4_Expected ==
    [j \in 1..Len(extended) |->
        <<C4_ColumnsUpTo(extended, j - 1) + 1, C4_ColumnsUpTo(extended, j)>>]

\* the concatenation of the last alignment read was refused
C4_ConcatRefused ==
    /\ pc = "aborted"
    /\ error = Raised("ValueError", "alignments must have the same number of rows")

\* C4: after the loop has read k extended alignments, the k descriptors,
\* joined with commas and read back as a partition file, are the pairs
\* (columns before j)+1 : (columns through j); the first starts at 1, each
\* start is the previous end + 1, the last end is the running column total,
\* and that total is the column count of the concatenated supermatrix.
C4_PartitionsContiguous ==
    (input.fn = "main") =>
        LET k == Len(extended)
            read == get_partitions(join_partitions(partitionlist) \o <<"\n">>)
        IN  /\ Len(partitionlist) = k
            /\ runningsum = C4_ColumnsUpTo(extended, k)
            /\ (k = 0) => (supermatrix = None)
            /\ (k > 0) =>
                  /\ read.ok
                  /\ read.partitions = C4_Expected
                  /\ read.partitions[1][1] = 1
                  /\ \A j \in 2..k :
                        read.partitions[j][1] = read.partitions[j - 1][2] + 1
                  /\ read.partitions[k][2] = runningsum
                  /\ ~C4_ConcatRefused => (supermatrix[1].cols = runningsum)

\* C4 witness: alignments of 120 and 80 columns have been extended in the
\* length-preserving mode and the run has written "1:120,121:200".
C4_Witness ==
    /\ input.fn = "main" /\ pc = "done"
    /\ Len(extended) = 2
    /\ extended[1].cols = 120 /\ extended[2].cols = 80
    /\ partitionlist = << <<"1", ":", "1", "2", "0">>,
                          <<"1", "2", "1", ":", "2", "0", "0">> >>
    /\ input.supermatrix # None
    /\ supermatrix[1].cols = 200
    /\ files[partition_file_of(input.supermatrix[1])].text
          = <<"1", ":", "1", "2", "0", ",", "1", "2", "1", ":", "2", "0", "0", "\n">>

\* C7: when species names are given and their number differs from the number
\* of species files that will be searched, the run aborts with the fatal
\* count error before any profile is built, any search is run or any file
\* is written.
C7_NameCountMismatchAborts ==
    (/\ input.fn = "main"
     /\ pc # "start"
     /\ pathkind(input.taxa[1]) # "missing"
     /\ input.taxa_names # <<>>
     /\ Len(input.taxa_names) # Len(newtaxafiles)) =>
        /\ pc = "aborted"
        /\ error = Raised("ValueError", "number of taxa names does not match number of files")
        /\ hmmprofilelist = <<>>
        /\ DOMAIN seqrecs_to_add = {}
        /\ DOMAIN files = {}

\* C8: whenever an external tool (hmmbuild, hmmsearch against a species file
\* or against the seeds, mafft in either mode, FastTree) has produced no
\* output, the run is aborted with the missing-output error naming the
\* expected path: no later step has run and no output path was returned.
C8_MissingOutputAborts ==
    (input.fn = "main" /\ nooutput # {}) =>
        /\ pc = "aborted"
        /\ \E path \in nooutput : error = MissingOutput(path)

\* the search for orthologs has been entered (line 350 has been executed)
C9_NamesEvaluated ==
    \/ pc \in {"search", "collect", "align", "concat", "tree", "finish", "done"}
    \/ /\ pc = "aborted"
       /\ error = Raised("NameError", "newspeciesfile referenced before assignment")

\* C9: when no species names are given the run proceeds, and the display
\* name of the i-th species is the base name of the i-th species file.
C9_NamesFallBackToBasenames ==
    (input.fn = "main" /\ input.taxa_names = <<>> /\ C9_NamesEvaluated) =>
        /\ pc # "aborted" \/ error[1].type # "NameError"
        /\ speciesnames = [i \in 1..Len(newtaxafiles) |-> basename(newtaxafiles[i])]

\* C10: when no supermatrix output is requested the supermatrix state stays
\* empty through the whole run, no supermatrix or partition file is written,
\* and the run is never aborted for extended alignments of unequal row
\* counts.
C10_NoSupermatrixWorkUnlessRequested ==
    (input.fn = "main" /\ input.supermatrix = None) =>
        /\ supermatrix = None
        /\ \A path \in DOMAIN files : files[path].kind # "text"
        /\ ~C4_ConcatRefused

\* the search phase has just ended: the loop of line 363 is about to hand
\* the lists to collect_sequences, which has renamed no record yet
C11_SearchEnded ==
    pc = "collect" /\ idx.a = 1

\* the accepted hits of species file i against a profile: the rows of the
\* table of that pair which pass the profile's threshold, as records of the
\* species file
C11_AcceptedHits(hmmprofile, i) ==
    LET fastafile == newtaxafiles[i]
        table == files[hmmtbl_output_of(hmmprofile, fastafile, NewHmmDir)].lines
        seqids == hmmtable_to_seqids(table, evalueforhmmdict[hmmprofile],
                                     ScoreCutoffDefault)
    IN  [k \in 1..Len(seqids) |-> seqdict_of(fastafile)[seqids[k]]]

\* C11: when the search phase has ended, the list of hit lists handed to
\* collect_sequences for each seed alignment has exactly one entry per
\* species file, and its i-th entry is the accepted hits of the i-th species
\* file against the alignment's own profile under that profile's threshold.
C11_OneHitListPerSpecies ==
    (input.fn = "main" /\ C11_SearchEnded) =>
        \A a \in 1..Len(alignfiles) :
            LET hmmprofile == aligntohmm[alignfiles[a]]
                hitlistolists == DictGetList(seqrecs_to_add, hmmprofile)
            IN  /\ Len(hitlistolists) = Len(newtaxafiles)
                /\ \A i \in 1..Len(newtaxafiles) :
                      hitlistolists[i] = C11_AcceptedHits(hmmprofile, i)

====
